---- MODULE Spec2Model ----
(***************************************************************************)
(* Verification model of the DSLMaker backend (hama-jp/DSLMaker).          *)
(*                                                                         *)
(* Eight sub-systems are modelled, each with its own specification:        *)
(*   Spec        the LangGraph multi-agent pipeline                        *)
(*               (app/graph/workflow_graph.py and app/agents/*.py)         *)
(*   SpecLimiter the RateLimiter object (app/middleware/rate_limit.py)     *)
(*   SpecHttp    the middleware stack of app/main.py around one request    *)
(*   SpecRetry   the retry decorator (app/utils/retry.py) and its use by   *)
(*               LLMService (app/services/llm_service.py)                  *)
(*   SpecApi     the request handlers of app/api/v1/endpoints/patterns.py, *)
(*               dify.py and generation.py with the vector store           *)
(*   SpecUtil    single calls of run_dify_workflow (app/mcp_client.py),    *)
(*               the variable reference helpers (app/utils/dify_builder.py)*)
(*               and the node id mapping of app/utils/dify_converter_v2.py *)
(*   SpecUsage   concurrent completion calls of LLMService and the token   *)
(*               usage statistics (app/services/llm_service.py)            *)
(*   SpecDsl     concurrent POST /generate/simple and /generate/full       *)
(*               requests around DSLService (app/services/dsl_service.py)  *)
(* A specification leaves the variables of the other sub-systems at their  *)
(* idle values.                                                            *)
(***************************************************************************)
EXTENDS Integers, Sequences, FiniteSets, TLC

VARIABLES
    \* ---- pipeline: WorkflowGenerationState (graph/state.py:59-86) ----
    pc,                 \* node LangGraph runs next, "END", or "aborted"
    requirements,       \* None or ClarifiedRequirements
    architecture,       \* None or WorkflowArchitecture
    configured_nodes,   \* List[ConfiguredNode]
    configured_edges,   \* List[Dict]
    quality_report,     \* None or QualityAssessment
    final_dsl,          \* None or the finished document
    iterations,         \* state["iterations"]
    max_iterations,     \* state["max_iterations"]
    current_agent,      \* state["current_agent"]
    error_history,      \* state["error_history"]
    \* ---- pipeline: observation (not program state) ----
    supersteps,         \* number of node runs so far
    trace,              \* the nodes run so far, in order
    retries,            \* times the edge quality -> configuration was taken
    env_failed,         \* some LLM call failed or returned a malformed result
    all_low,            \* every quality LLM result so far was low with should_retry
    last_outcome,       \* how the last node run ended: "ok", "fallback", "raised"
    abort_reason,       \* exception that ended the run, "" if none
    qa_obs,             \* what the last quality run got: the LLM's report
                        \* (None if the assessment failed) and errors_count
    \* ---- rate limiter: RateLimiter / RateLimitMiddleware ----
    rl_requests,        \* RateLimiter.requests
    rl_period,          \* RateLimiter.period
    clients,            \* RateLimiter.clients, timestamps kept as ages (now - t)
    rl_enabled,         \* RateLimitMiddleware.enabled
    cleanup_counter,    \* RateLimitMiddleware.cleanup_counter
    uncounted,          \* observation: some non-exempt request since the last
                        \* housekeeping pass was not counted by cleanup_counter
    allowed_ages,       \* observation: ages of the allowed calls of each client
    last_call,          \* observation: the last is_allowed call and its result
    response,           \* observation: what last left the added middleware: a
                        \* response (status, headers) or an exception (raised)
    \* ---- retry decorator ----
    rt,                 \* one wrapped call: configuration, loop position, observation
    \* ---- API handlers ----
    vector_store,       \* VectorStoreService: _initialized and the ids it holds
    api,                \* observation: the last request and the answer it got
    \* ---- utilities ----
    util,               \* observation: the last utility call and its result
    \* ---- LLMService.usage_stats and the completion calls in flight ----
    usage_stats,        \* TokenUsageStats
    tasks,              \* each coroutine's position in generate_completion
    usage_obs,          \* observation: what was reported so far, the last cost
    \* ---- DSLService and the generation requests in flight ----
    node_counter,       \* DSLService._node_counter
    gen                 \* each request's position in its handler, its answer

pipeVars == <<pc, requirements, architecture, configured_nodes, configured_edges,
              quality_report, final_dsl, iterations, max_iterations, current_agent,
              error_history, supersteps, trace, retries, env_failed, all_low,
              last_outcome, abort_reason, qa_obs>>
rlVars == <<rl_requests, rl_period, clients, rl_enabled, cleanup_counter, uncounted,
            allowed_ages, last_call, response>>
rtVars == <<rt>>
apiVars == <<vector_store, api>>
utilVars == <<util>>
usageVars == <<usage_stats, tasks, usage_obs>>
dslVars == <<node_counter, gen>>
vars == <<pipeVars, rlVars, rtVars, apiVars, utilVars, usageVars, dslVars>>

\* what the actions of one sub-system leave alone
exceptPipeline == <<rlVars, rtVars, apiVars, utilVars, usageVars, dslVars>>
exceptLimiter == <<pipeVars, rtVars, apiVars, utilVars, usageVars, dslVars>>
exceptRetry == <<pipeVars, rlVars, apiVars, utilVars, usageVars, dslVars>>
exceptApi == <<pipeVars, rlVars, rtVars, utilVars, usageVars, dslVars>>
exceptUtil == <<pipeVars, rlVars, rtVars, apiVars, usageVars, dslVars>>
exceptUsage == <<pipeVars, rlVars, rtVars, apiVars, utilVars, dslVars>>
exceptDsl == <<pipeVars, rlVars, rtVars, apiVars, utilVars, usageVars>>

\* Python's None, as a record so that it compares with the records below.
NoneVal == [kind |-> "None"]

Max(a, b) == IF a >= b THEN a ELSE b
Min(a, b) == IF a <= b THEN a ELSE b

(***************************************************************************)
(*                          P I P E L I N E                                *)
(***************************************************************************)

\* ---- bounds ----
MaxIterations == 2      \* max_iterations is drawn from 0..MaxIterations
MaxSupersteps == 10     \* node runs explored per execution

\* ---- inputs the environment (the LLM) can produce ----
\* overall_score / correctness_score values reported by the quality LLM
LLMScores == {10, 89, 90}

Node(id, type, dtype, title) ==
    [id |-> id, type |-> type, data_type |-> dtype, has_title |-> title]
Edge(s, t) == [source |-> s, target |-> t]

\* "nodes"/"edges" arrays the configuration LLM can return
LLMGraphs ==
    { [nodes |-> <<>>, edges |-> <<>>],
      [nodes |-> << Node("start", "start", "start", TRUE),
                    Node("llm", "llm", "llm", TRUE),
                    Node("end", "end", "end", TRUE) >>,
       edges |-> << Edge("start", "llm"), Edge("llm", "end") >>],
      [nodes |-> << Node("start", "start", "start", TRUE),
                    Node("end", "end", "end", TRUE) >>,
       edges |-> << Edge("start", "ghost") >>] }

\* ---- graph/state.py ----
\* field names of ClarifiedRequirements
ClarifiedRequirementsFields ==
    {"business_intent", "input_data", "expected_output", "business_logic",
     "integrations", "performance_requirements", "constraints", "confidence_score"}

QualityAssessment(overall, correctness, nissues, retry) ==
    [kind |-> "QualityAssessment", overall_score |-> overall,
     completeness_score |-> 50, correctness_score |-> correctness,
     best_practices_score |-> 50, issues |-> nissues, should_retry |-> retry]

\* ---- agents: fallback values ----
\* RequirementsAgent._create_fallback_requirements (confidence 0.3, in tenths)
FallbackRequirements ==
    [kind |-> "ClarifiedRequirements", origin |-> "fallback", confidence_score |-> 3]
LLMRequirements ==
    [kind |-> "ClarifiedRequirements", origin |-> "llm", confidence_score |-> 8]

\* ArchitectureAgent._create_fallback_architecture
FallbackArchitecture ==
    [kind |-> "WorkflowArchitecture", origin |-> "fallback",
     pattern_id |-> "pattern_linear_001", estimated_nodes |-> 3]
LLMArchitecture ==
    [kind |-> "WorkflowArchitecture", origin |-> "llm",
     pattern_id |-> "pattern_xxx_001", estimated_nodes |-> 5]

\* ConfigurationAgent._create_fallback_nodes: data holds "title", no "type"
FallbackNodes ==
    << Node("start_1", "start", "absent", TRUE),
       Node("llm_1", "llm", "absent", TRUE),
       Node("end_1", "end", "absent", TRUE) >>

\* ConfigurationAgent._create_fallback_edges
FallbackEdges == << Edge("start_1", "llm_1"), Edge("llm_1", "end_1") >>

\* QualityAgent.execute, except branch: flat 50s, one issue, should_retry False
QualityFallbackReportRetrying == QualityAssessment(50, 50, 1, TRUE)
QualityFallbackReport == QualityAssessment(50, 50, 1, FALSE)

\* ---- services/validation_service.py ----
VALID_NODE_TYPES ==
    {"start", "end", "llm", "knowledge-retrieval", "code", "http-request",
     "if-else", "iteration", "parameter-extractor", "question-classifier",
     "variable-aggregator", "template-transform", "assigner", "tool",
     "conversation-variable-assigner"}

\* The dict handed to validate_workflow: whether it has an "app" key, whether
\* app has all of name/description/nodes/edges, and app's nodes and edges.
WorkflowDict(has_app, app_complete, nodes, edges) ==
    [has_app |-> has_app, app_complete |-> app_complete,
     app_nodes |-> nodes, app_edges |-> edges]

\* _validate_structure: errors added
StructureErrors(wf) ==
    IF ~wf.has_app THEN 1 ELSE IF ~wf.app_complete THEN 1 ELSE 0

NodeIds(nodes) == {nodes[i].id : i \in 1..Len(nodes)}

\* _validate_node_data: errors added for one node
NodeDataErrors(n) ==
    IF n.data_type = "absent" \/ ~n.has_title THEN 1
    ELSE IF n.data_type \notin VALID_NODE_TYPES THEN 1 ELSE 0

\* _validate_nodes: errors added
NodesErrors(nodes) ==
    IF nodes = <<>> THEN 1
    ELSE (Len(nodes) - Cardinality(NodeIds(nodes)))
         + Cardinality({i \in 1..Len(nodes) : NodeDataErrors(nodes[i]) = 1})

\* _validate_edges: errors added
EdgesErrors(edges, ids) ==
    IF edges = <<>> THEN 0
    ELSE Cardinality({i \in 1..Len(edges) : edges[i].source \notin ids})
         + Cardinality({i \in 1..Len(edges) : edges[i].target \notin ids})

\* _validate_start_end_nodes: errors added
StartEndErrors(nodes) ==
    LET types == {nodes[i].data_type : i \in 1..Len(nodes)}
    IN  (IF "start" \notin types THEN 1 ELSE 0)
        + (IF "end" \notin types THEN 1 ELSE 0)

\* validate_workflow: errors_count of the result (variable references and
\* connectivity only add warnings)
ValidateWorkflow(wf) ==
    LET nodes == IF wf.has_app THEN wf.app_nodes ELSE <<>>
        edges == IF wf.has_app THEN wf.app_edges ELSE <<>>
    IN  StructureErrors(wf) + NodesErrors(nodes)
        + EdgesErrors(edges, NodeIds(nodes)) + StartEndErrors(nodes)

\* QualityAgent.execute: workflow_json = {"nodes": ..., "edges": ...}
QualityWorkflowJson(nodes, edges) == WorkflowDict(FALSE, FALSE, <<>>, <<>>)

\* QualityAgent.execute: penalty for a failed validation
Penalty(errors_count) == IF errors_count = 0 THEN 0 ELSE Min(20, errors_count * 5)

PenalizedReportNoFloor(r, errors_count) ==
    [r EXCEPT !.overall_score = r.overall_score - Penalty(errors_count),
              !.correctness_score = r.correctness_score - Penalty(errors_count)]
\* QualityAgent.execute: the report stored when the LLM answered
PenalizedReport(r, errors_count) ==
    [r EXCEPT !.overall_score = Max(0, r.overall_score - Penalty(errors_count)),
              !.correctness_score = Max(0, r.correctness_score - Penalty(errors_count))]

\* ---- graph/workflow_graph.py ----
\* should_iterate: "iterate", "finalize", or "TypeError" when the log line of
\* the retry branch subscripts a QualityIssue object (issues[0]['issue'])
should_iterate(qr, iters, max_iters) ==
    IF qr = NoneVal THEN "finalize"
    ELSE IF qr.should_retry /\ qr.overall_score < 70 /\ iters < max_iters
         THEN (IF qr.issues > 0 THEN "TypeError" ELSE "iterate")
         ELSE "finalize"

\* add_conditional_edges("quality", should_iterate, {...})
RetryEdgeToQuality(route) == IF route = "iterate" THEN "quality" ELSE "finalize"
ConditionalEdge(route) == IF route = "iterate" THEN "configuration" ELSE "finalize"

\* ---- the pipeline's actions ----
\* initial_state of generate_multi_agent_workflow
InitPipeline ==
    /\ pc = "requirements"
    /\ requirements = NoneVal
    /\ architecture = NoneVal
    /\ configured_nodes = <<>>
    /\ configured_edges = <<>>
    /\ quality_report = NoneVal
    /\ final_dsl = NoneVal
    /\ iterations = 0
    /\ max_iterations \in 0..MaxIterations
    /\ current_agent = "None"
    /\ error_history = <<>>
    /\ supersteps = 0
    /\ trace = <<>>
    /\ retries = 0
    /\ env_failed = FALSE
    /\ all_low = TRUE
    /\ last_outcome = "none"
    /\ abort_reason = ""
    /\ qa_obs = [raw |-> NoneVal, errors_count |-> 0]

IdlePipeline ==
    /\ InitPipeline
    /\ max_iterations = 0

\* state.get("error_history", []) + [f"<Stage>: {str(e)}"]: an entry is kept as
\* its stage prefix
ErrorHistoryReset(history, stage) == <<stage>>
ErrorHistoryWith(history, stage) == Append(history, stage)

\* a node run is counted and recorded
Ran(stage, outcome) ==
    /\ supersteps' = supersteps + 1
    /\ trace' = Append(trace, stage)
    /\ last_outcome' = outcome

\* an exception that leaves a node ends the run: ainvoke raises
Aborts(stage, exc) ==
    /\ Ran(stage, "raised")
    /\ pc' = "aborted"
    /\ abort_reason' = exc
    /\ UNCHANGED <<requirements, architecture, configured_nodes, configured_edges,
                   quality_report, final_dsl, iterations, max_iterations,
                   current_agent, error_history, retries, env_failed, all_low,
                   qa_obs>>

\* requirements_node / RequirementsAgent.execute
RequirementsNode ==
    /\ UNCHANGED exceptPipeline
    /\ pc = "requirements"
    /\ supersteps < MaxSupersteps
    /\ \E llm \in {"ok", "error"} :
        /\ requirements' = IF llm = "ok" THEN LLMRequirements ELSE FallbackRequirements
        /\ error_history' = IF llm = "ok" THEN error_history
                            ELSE ErrorHistoryWith(error_history, "Requirements")
        /\ env_failed' = (env_failed \/ llm = "error")
        /\ Ran("requirements", IF llm = "ok" THEN "ok" ELSE "fallback")
    /\ current_agent' = "Requirements Agent"
    /\ pc' = "architecture"
    /\ UNCHANGED <<architecture, configured_nodes, configured_edges, quality_report,
                   final_dsl, iterations, max_iterations, retries, all_low,
                   abort_reason, qa_obs>>

\* architecture_node / ArchitectureAgent.execute: the prompt arguments read
\* requirements.required_capabilities inside the try block
ArchitectureNode ==
    /\ UNCHANGED exceptPipeline
    /\ pc = "architecture"
    /\ supersteps < MaxSupersteps
    /\ IF requirements = NoneVal
       THEN Aborts("architecture", "ValueError")
       ELSE \E llm \in {"ok", "error"} :
            LET raised == \/ "required_capabilities" \notin ClarifiedRequirementsFields
                          \/ llm = "error"
            IN  /\ architecture' = IF raised THEN FallbackArchitecture ELSE LLMArchitecture
                /\ error_history' = IF raised THEN ErrorHistoryWith(error_history, "Architecture")
                                    ELSE error_history
                /\ env_failed' = (env_failed \/ llm = "error")
                /\ Ran("architecture", IF raised THEN "fallback" ELSE "ok")
                /\ current_agent' = "Architecture Agent"
                /\ pc' = "configuration"
                /\ UNCHANGED <<requirements, configured_nodes, configured_edges,
                               quality_report, final_dsl, iterations, max_iterations,
                               retries, all_low, abort_reason, qa_obs>>

\* configuration_node / ConfigurationAgent.execute
ConfigurationNode ==
    /\ UNCHANGED exceptPipeline
    /\ pc = "configuration"
    /\ supersteps < MaxSupersteps
    /\ IF requirements = NoneVal \/ architecture = NoneVal
       THEN Aborts("configuration", "ValueError")
       ELSE \E llm \in {"ok", "error"}, g \in LLMGraphs :
            /\ configured_nodes' = IF llm = "ok" THEN g.nodes ELSE FallbackNodes
            /\ configured_edges' = IF llm = "ok" THEN g.edges ELSE FallbackEdges
            /\ error_history' = IF llm = "ok" THEN error_history
                                ELSE ErrorHistoryWith(error_history, "Configuration")
            /\ env_failed' = (env_failed \/ llm = "error")
            /\ Ran("configuration", IF llm = "ok" THEN "ok" ELSE "fallback")
            /\ current_agent' = "Configuration Agent"
            /\ pc' = "quality"
            /\ UNCHANGED <<requirements, architecture, quality_report, final_dsl,
                           iterations, max_iterations, retries, all_low, abort_reason,
                           qa_obs>>

\* quality_node / QualityAgent.execute, followed by the conditional edge
QualityNode ==
    /\ UNCHANGED exceptPipeline
    /\ pc = "quality"
    /\ supersteps < MaxSupersteps
    /\ IF requirements = NoneVal \/ architecture = NoneVal \/ configured_nodes = <<>>
       THEN Aborts("quality", "ValueError")
       ELSE \E llm \in {"ok", "error"}, s \in LLMScores, c \in LLMScores,
               n \in 0..1, retry \in BOOLEAN :
            LET errors == ValidateWorkflow(
                              QualityWorkflowJson(configured_nodes, configured_edges))
                report == IF llm = "ok"
                          THEN PenalizedReport(QualityAssessment(s, c, n, retry), errors)
                          ELSE QualityFallbackReport
                route == should_iterate(report, iterations, max_iterations)
            IN  /\ quality_report' = report
                /\ qa_obs' = [raw |-> IF llm = "ok" THEN QualityAssessment(s, c, n, retry)
                                      ELSE NoneVal,
                              errors_count |-> errors]
                /\ error_history' = IF llm = "ok" THEN error_history
                                    ELSE ErrorHistoryWith(error_history, "Quality")
                /\ env_failed' = (env_failed \/ llm = "error")
                /\ all_low' = (all_low /\ report.should_retry /\ report.overall_score < 70)
                /\ current_agent' = "Quality Assurance Agent"
                /\ Ran("quality", IF llm = "ok" THEN "ok" ELSE "fallback")
                /\ pc' = IF route = "TypeError" THEN "aborted" ELSE ConditionalEdge(route)
                /\ abort_reason' = IF route = "TypeError" THEN "TypeError" ELSE abort_reason
                /\ retries' = IF route = "iterate" THEN retries + 1 ELSE retries
                /\ UNCHANGED <<requirements, architecture, configured_nodes,
                               configured_edges, final_dsl, iterations, max_iterations>>

\* finalize_node, followed by the edge finalize -> END
FinalizeNode ==
    /\ UNCHANGED exceptPipeline
    /\ pc = "finalize"
    /\ supersteps < MaxSupersteps
    /\ IF quality_report = NoneVal
       THEN /\ error_history' = ErrorHistoryWith(error_history, "Finalize")
            /\ Ran("finalize", "fallback")
            /\ UNCHANGED <<final_dsl, current_agent>>
       ELSE /\ final_dsl' = [kind |-> "dsl", version |-> "0.1.5",
                             from_requirements |-> (requirements # NoneVal),
                             nodes |-> configured_nodes, edges |-> configured_edges]
            /\ current_agent' = "Finalize"
            /\ Ran("finalize", "ok")
            /\ UNCHANGED error_history
    /\ pc' = "END"
    /\ UNCHANGED <<requirements, architecture, configured_nodes, configured_edges,
                   quality_report, iterations, max_iterations, retries, env_failed,
                   all_low, abort_reason, qa_obs>>

NextPipeline ==
    \/ RequirementsNode
    \/ ArchitectureNode
    \/ ConfigurationNode
    \/ QualityNode
    \/ FinalizeNode

(***************************************************************************)
(*                       R A T E   L I M I T E R                           *)
(* Time is relative: a stored timestamp t is kept as its age now - t, in   *)
(* whole seconds.  "timestamp > now - period" is "age < period" and        *)
(* "max(timestamps) < now - 2*period" is "smallest age > 2*period", so an  *)
(* age above 2*period never needs to grow further.  The clock does not go  *)
(* backwards.                                                              *)
(***************************************************************************)

\* ---- bounds ----
MaxRequests == 2        \* SpecLimiter: requests is drawn from 1..MaxRequests
MaxPeriod == 2          \* SpecLimiter: period is drawn from 1..MaxPeriod
HttpRequests == 1       \* SpecHttp: requests of the middleware's limiter
HttpPeriod == 1         \* SpecHttp: period of the middleware's limiter
MaxRejected == 2        \* consecutive rejected calls of one client that are counted

ClientIds == {"10.0.0.1", "10.0.0.2"}

\* RateLimitMiddleware.dispatch: housekeeping threshold
CleanupEvery == 100

Untracked == [tracked |-> FALSE, ts |-> <<>>]
Tracked(ts) == [tracked |-> TRUE, ts |-> ts]

AgeCap == 2 * rl_period + 1

\* RateLimiter.is_allowed, the list comprehension: timestamps inside the window
Prune(ts) == SelectSeq(ts, LAMBDA a : a < rl_period)

\* RateLimiter.is_allowed: the comparison with the limit
UnderLimitInclusive(current_requests) == current_requests <= rl_requests
UnderLimit(current_requests) == current_requests < rl_requests

\* RateLimiter.is_allowed: (is_allowed, remaining) and the client's new list
IsAllowedResultRecordsRejected(c) ==
    LET kept == Prune(clients[c].ts)
        current_requests == Len(kept)
    IN  IF UnderLimit(current_requests)
        THEN [allowed |-> TRUE, remaining |-> rl_requests - current_requests - 1,
              ts |-> Append(kept, 0)]
        ELSE [allowed |-> FALSE, remaining |-> 0, ts |-> Append(kept, 0)]
IsAllowedResult(c) ==
    LET kept == Prune(clients[c].ts)
        current_requests == Len(kept)
    IN  IF UnderLimit(current_requests)
        THEN [allowed |-> TRUE, remaining |-> rl_requests - current_requests - 1,
              ts |-> Append(kept, 0)]
        ELSE [allowed |-> FALSE, remaining |-> 0, ts |-> kept]

\* RateLimiter.cleanup_old_clients: the clients dict after the pass
CleanedUp(cl) ==
    [c \in ClientIds |->
        IF cl[c].tracked
           /\ (cl[c].ts = <<>> \/ \A i \in 1..Len(cl[c].ts) : cl[c].ts[i] > 2 * rl_period)
        THEN Untracked
        ELSE cl[c]]

\* observation of one is_allowed call: its result, the number of the client's
\* allowed calls inside the window before it, and the number of rejected calls
\* of the same client that came directly before it (counted up to MaxRejected)
Observe(c, res) ==
    /\ last_call' = [client |-> c, allowed |-> res.allowed, remaining |-> res.remaining,
                     before |-> Len(allowed_ages[c]),
                     rejected |-> IF last_call.client = c /\ ~last_call.allowed
                                  THEN Min(last_call.rejected + 1, MaxRejected)
                                  ELSE 0]
    /\ allowed_ages' = IF res.allowed
                       THEN [allowed_ages EXCEPT ![c] = Append(@, 0)]
                       ELSE allowed_ages

NoCall == [client |-> "", allowed |-> FALSE, remaining |-> 0, before |-> 0, rejected |-> 0]
NoResponse == [status |-> 0, headers |-> {}, raised |-> FALSE]

InitLimiterWith(n, p, enabled) ==
    /\ rl_requests = n
    /\ rl_period = p
    /\ rl_enabled = enabled
    /\ clients = [c \in ClientIds |-> Untracked]
    /\ cleanup_counter = 0
    /\ uncounted = FALSE
    /\ allowed_ages = [c \in ClientIds |-> <<>>]
    /\ last_call = NoCall
    /\ response = NoResponse

IdleLimiter == InitLimiterWith(1, 1, TRUE)

InitLimiter == \E n \in 1..MaxRequests, p \in 1..MaxPeriod : InitLimiterWith(n, p, TRUE)

\* one second passes
Tick ==
    /\ UNCHANGED exceptLimiter
    /\ clients' = [c \in ClientIds |->
                     [clients[c] EXCEPT !.ts =
                         [i \in 1..Len(@) |-> Min(@[i] + 1, AgeCap)]]]
    /\ allowed_ages' = [c \in ClientIds |->
                          SelectSeq([i \in 1..Len(allowed_ages[c]) |-> allowed_ages[c][i] + 1],
                                    LAMBDA a : a < rl_period)]
    /\ UNCHANGED <<rl_requests, rl_period, rl_enabled, cleanup_counter, uncounted, last_call,
                   response>>

\* RateLimiter.is_allowed(client_id)
IsAllowed(c) ==
    LET res == IsAllowedResult(c)
    IN  /\ UNCHANGED exceptLimiter
        /\ clients' = [clients EXCEPT ![c] = Tracked(res.ts)]
        /\ Observe(c, res)
        /\ UNCHANGED <<rl_requests, rl_period, rl_enabled, cleanup_counter, uncounted,
                       response>>

\* RateLimiter.cleanup_old_clients()
CleanupOldClients ==
    /\ UNCHANGED exceptLimiter
    /\ clients' = CleanedUp(clients)
    /\ UNCHANGED <<rl_requests, rl_period, rl_enabled, cleanup_counter, uncounted,
                   allowed_ages, last_call, response>>

NextLimiter ==
    \/ Tick
    \/ \E c \in ClientIds : IsAllowed(c)
    \/ CleanupOldClients

(***************************************************************************)
(*                     M I D D L E W A R E   S T A C K                     *)
(***************************************************************************)

\* app/main.py: the add_middleware calls, in source order
AddedMiddleware == <<"RequestLoggingMiddleware", "CORSMiddleware", "RateLimitMiddleware">>

\* Starlette puts each added middleware in front of those added before it:
\* the stack, outermost first
MiddlewareStack ==
    [i \in 1..Len(AddedMiddleware) |-> AddedMiddleware[Len(AddedMiddleware) + 1 - i]]

PositionOf(name) == CHOOSE i \in 1..Len(MiddlewareStack) : MiddlewareStack[i] = name

\* middleware a response crosses after RateLimitMiddleware returned it
OutsideRateLimit ==
    {MiddlewareStack[i] : i \in 1..(PositionOf("RateLimitMiddleware") - 1)}
\* middleware between RateLimitMiddleware and the application
InsideRateLimit ==
    {MiddlewareStack[i] : i \in (PositionOf("RateLimitMiddleware") + 1)..Len(MiddlewareStack)}

\* RateLimitMiddleware.dispatch: paths that skip rate limiting
ExemptPaths == {"/", "/health", "/docs", "/openapi.json", "/redoc"}
Paths == {"/health", "/api/v1/generate/simple"}

\* what the routed application does with a request: a response with a status
\* (HTTPException included), or an exception no handler catches
AppOutcomes == {"ok", "http_error", "raise"}
AppResponse(outcome) ==
    IF outcome = "raise"
    THEN [status |-> 0, headers |-> {}, raised |-> TRUE]
    ELSE [status |-> IF outcome = "ok" THEN 200 ELSE 404, headers |-> {}, raised |-> FALSE]

\* RequestLoggingMiddleware.dispatch, on what call_next gave
LoggingDispatch(r) ==
    IF r.raised THEN r
    ELSE [r EXCEPT !.headers = @ \cup {"X-Request-ID", "X-Response-Time"}]

\* a response (or exception) crossing a set of middleware on its way out;
\* CORSMiddleware adds none of the headers modelled here
Through(mws, r) ==
    IF "RequestLoggingMiddleware" \in mws THEN LoggingDispatch(r) ELSE r

RateLimitHeaders == {"X-RateLimit-Limit", "X-RateLimit-Remaining", "X-RateLimit-Reset"}

\* RateLimitMiddleware.dispatch: the 429 JSONResponse
TooManyRequests ==
    [status |-> 429, headers |-> RateLimitHeaders \cup {"Retry-After"}, raised |-> FALSE]

InitHttp == \E enabled \in BOOLEAN : InitLimiterWith(HttpRequests, HttpPeriod, enabled)

\* one request through the stack: RateLimitMiddleware.dispatch with the
\* middleware inside and outside it
Dispatch(c, path, outcome) ==
    LET inner == Through(InsideRateLimit, AppResponse(outcome))
        res == IsAllowedResult(c)
        Send(r) == response' = Through(OutsideRateLimit, r)
    IN  /\ UNCHANGED exceptLimiter
        /\ IF ~rl_enabled \/ path \in ExemptPaths
           THEN /\ Send(inner)
                /\ UNCHANGED <<rl_requests, rl_period, rl_enabled, clients, cleanup_counter,
                               uncounted, allowed_ages, last_call>>
           ELSE /\ Observe(c, res)
                /\ IF ~res.allowed
                   THEN /\ Send(TooManyRequests)
                        /\ clients' = [clients EXCEPT ![c] = Tracked(res.ts)]
                        /\ UNCHANGED cleanup_counter
                        /\ uncounted' = TRUE
                   ELSE IF inner.raised
                   THEN /\ Send(inner)
                        /\ clients' = [clients EXCEPT ![c] = Tracked(res.ts)]
                        /\ UNCHANGED cleanup_counter
                        /\ uncounted' = TRUE
                   ELSE /\ Send([inner EXCEPT !.headers = @ \cup RateLimitHeaders])
                        /\ IF cleanup_counter + 1 >= CleanupEvery
                           THEN /\ clients' = CleanedUp([clients EXCEPT ![c] = Tracked(res.ts)])
                                /\ cleanup_counter' = 0
                                /\ uncounted' = FALSE
                           ELSE /\ clients' = [clients EXCEPT ![c] = Tracked(res.ts)]
                                /\ cleanup_counter' = cleanup_counter + 1
                                /\ UNCHANGED uncounted
                /\ UNCHANGED <<rl_requests, rl_period, rl_enabled>>

NextHttp ==
    \/ Tick
    \/ \E c \in ClientIds, path \in Paths, outcome \in AppOutcomes : Dispatch(c, path, outcome)

(***************************************************************************)
(*                      R E T R Y   D E C O R A T O R                      *)
(* Delays are kept in hundredths of a second.                              *)
(***************************************************************************)

\* ---- bounds ----
MaxRetries == 3         \* max_retries is drawn from 0..MaxRetries

\* what one call of the wrapped function does
CallOutcomes == {"ok", "retryable", "other"}

\* callers of a wrapped function that accepts a `model` keyword
\* (LLMService.generate_completion): direct calls with and without model=,
\* and LLMService.generate_text / generate_json
Callers == {"completion(model=)", "completion()", "generate_text", "generate_json"}

\* whether the caller's keyword arguments contain "model"
ModelInKwargs(caller) == caller = "completion(model=)"

\* random.random() gives a factor 0.5 + r in [0.5, 1.5): percentages sampled
JitterPercents == {50, 100, 149}

\* retry_with_exponential_backoff: number of iterations of the attempt loop
AttemptsOneShort(max_retries) == max_retries
Attempts(max_retries) == max_retries + 1

\* delay = min(base_delay * exponential_base ** attempt, max_delay), jittered
Delay(cfg, attempt, pct) ==
    LET d == Min(cfg.base_delay * (cfg.exponential_base ^ attempt), cfg.max_delay) * 100
    IN  IF cfg.jitter THEN (d * pct) \div 100 ELSE d

\* the decorator picks async_wrapper for coroutine functions
InitRetry ==
    \E r \in 0..MaxRetries, fb \in {"None", "gpt-4o-mini"}, async \in BOOLEAN,
       caller \in Callers, jitter \in BOOLEAN :
        rt = [max_retries |-> r, base_delay |-> 1, max_delay |-> 3,
              exponential_base |-> 2, jitter |-> jitter, fallback_model |-> fb,
              is_async |-> async, caller |-> caller,
              pc |-> "loop", attempt |-> 0,
              calls |-> 0, fallback_calls |-> 0, model |-> "default",
              only_retryable |-> TRUE, result |-> "", exception |-> "",
              exhausted |-> FALSE, slept |-> 0]

IdleRetry ==
    rt = [max_retries |-> 0, base_delay |-> 1, max_delay |-> 3,
          exponential_base |-> 2, jitter |-> FALSE, fallback_model |-> "None",
          is_async |-> FALSE, caller |-> "completion()",
          pc |-> "loop", attempt |-> 0,
          calls |-> 0, fallback_calls |-> 0, model |-> "default",
          only_retryable |-> TRUE, result |-> "", exception |-> "",
          exhausted |-> FALSE, slept |-> 0]

\* the wrapper returns a value
Returns(r) == [r EXCEPT !.pc = "done", !.result = "returned"]
\* the wrapper raises an exception of the given kind
Raises(r, kind) == [r EXCEPT !.pc = "done", !.result = "raised", !.exception = kind]

\* async_wrapper / sync_wrapper: one iteration of `for attempt in range(...)`
RetryIteration ==
    /\ UNCHANGED exceptRetry
    /\ rt.pc = "loop"
    /\ IF rt.attempt >= Attempts(rt.max_retries)
       THEN \* loop ran out: `if last_exception: raise last_exception`
            rt' = IF rt.calls > 0 THEN Raises(rt, "retryable") ELSE Returns(rt)
       ELSE \E o \in CallOutcomes, fo \in CallOutcomes, pct \in JitterPercents :
            LET called == [rt EXCEPT !.calls = @ + 1,
                                     !.only_retryable = @ /\ o = "retryable"]
            IN  IF o = "ok" THEN rt' = Returns(called)
                ELSE IF o = "other" THEN rt' = Raises(called, "other")
                ELSE IF rt.attempt >= rt.max_retries
                THEN LET ex == [called EXCEPT !.exhausted = TRUE]
                     IN  IF rt.is_async /\ rt.fallback_model # "None"
                            /\ ModelInKwargs(rt.caller)
                         THEN LET again == [ex EXCEPT !.calls = @ + 1,
                                                      !.fallback_calls = @ + 1,
                                                      !.model = rt.fallback_model]
                              IN  rt' = IF fo = "ok" THEN Returns(again)
                                        ELSE Raises(again, "retryable")
                         ELSE rt' = Raises(ex, "retryable")
                ELSE rt' = [called EXCEPT !.attempt = @ + 1,
                                          !.slept = Delay(rt, rt.attempt, pct)]

NextRetry == RetryIteration

(***************************************************************************)
(*                        A P I   H A N D L E R S                          *)
(* A request goes to the first route of its router, in declaration order,  *)
(* whose method and path match, and the handler runs to completion.  A     *)
(* path below a router's prefix is kept as its one segment.                *)
(***************************************************************************)

\* ---- inputs ----
PatternIds == {"p1", "recommend", "statistics"}
Methods == {"GET", "POST", "DELETE"}
Segments == {"list", "search", "add", "recommend", "statistics", "p1"}

\* ---- api/v1/endpoints/patterns.py: the routes, in declaration order ----
PathParam == "{pattern_id}"
Route(method, segment, handler) ==
    [method |-> method, segment |-> segment, handler |-> handler]
PatternRoutes ==
    << Route("GET", "list", "list_patterns"),
       Route("GET", "search", "search_patterns"),
       Route("GET", PathParam, "get_pattern"),
       Route("POST", "add", "add_pattern"),
       Route("DELETE", PathParam, "delete_pattern"),
       Route("GET", "recommend", "recommend_patterns"),
       Route("GET", "statistics", "get_pattern_statistics") >>
Matches(route, method, segment) ==
    route.method = method /\ route.segment \in {segment, PathParam}
Routed(routes, method, segment) ==
    LET hits == {i \in 1..Len(routes) : Matches(routes[i], method, segment)}
    IN  IF hits = {} THEN ""
        ELSE routes[CHOOSE i \in hits : \A j \in hits : i <= j].handler

\* ---- what a handler leaves behind: the answer and the store's ids ----
Answer(status, keys) == [status |-> status, keys |-> keys, valid |-> FALSE]
HTTPException(status_code) == Answer(status_code, {"detail"})
Handled(answer, ids) == [answer |-> answer, ids |-> ids]
NotInitialized == HTTPException(503)

\* services/recommendation_service.py
RecommendationStatistics(vs, fails) ==
    IF ~vs.initialized THEN Answer(200, {"error"})
    ELSE IF fails THEN HTTPException(500)
    ELSE IF Cardinality(vs.ids) = 0
         THEN Answer(200, {"total_patterns", "by_complexity", "by_tags"})
    ELSE Answer(200, {"total_patterns", "collection_name", "note"})

\* ---- api/v1/endpoints/patterns.py: the handlers ----
\* fails: ChromaDB raises during this request
list_patterns(vs, fails) ==
    IF vs.initialized /\ fails THEN Handled(HTTPException(500), vs.ids)
    ELSE Handled(Answer(200, {"total_patterns", "collection_name", "status"}), vs.ids)
search_patterns(vs, fails) ==
    IF ~vs.initialized THEN Handled(NotInitialized, vs.ids)
    ELSE IF fails THEN Handled(HTTPException(500), vs.ids)
    ELSE Handled(Answer(200, {"query", "n_results", "patterns"}), vs.ids)
get_pattern(vs, pattern_id, fails) ==
    IF ~vs.initialized THEN Handled(NotInitialized, vs.ids)
    ELSE IF fails THEN Handled(HTTPException(500), vs.ids)
    ELSE IF pattern_id \notin vs.ids THEN Handled(HTTPException(404), vs.ids)
    ELSE Handled(Answer(200, {"id", "content", "metadata"}), vs.ids)
add_pattern(vs, pattern_id, fails) ==
    IF ~vs.initialized THEN Handled(NotInitialized, vs.ids)
    ELSE IF fails THEN Handled(HTTPException(500), vs.ids)
    ELSE Handled(Answer(200, {"status", "pattern_id", "message"}),
                 vs.ids \cup {pattern_id})
delete_pattern(vs, pattern_id, fails) ==
    IF ~vs.initialized THEN Handled(NotInitialized, vs.ids)
    ELSE IF fails THEN Handled(HTTPException(500), vs.ids)
    ELSE Handled(Answer(200, {"status", "pattern_id", "message"}),
                 vs.ids \ {pattern_id})
recommend_patterns(vs, fails) ==
    IF ~vs.initialized THEN Handled(NotInitialized, vs.ids)
    ELSE IF fails THEN Handled(HTTPException(500), vs.ids)
    ELSE Handled(Answer(200, {"description", "n_results", "recommendations"}), vs.ids)
get_pattern_statistics(vs, fails) ==
    Handled(RecommendationStatistics(vs, fails), vs.ids)

NoRequest ==
    [router |-> "", method |-> "", path |-> "", handler |-> "", request |-> NoneVal,
     initialized |-> FALSE, failed |-> FALSE, status |-> 0, keys |-> {},
     valid |-> FALSE]

InitApi ==
    /\ vector_store \in [initialized : {FALSE}, ids : SUBSET PatternIds]
    /\ api = NoRequest
IdleApi ==
    /\ vector_store = [initialized |-> FALSE, ids |-> {}]
    /\ api = NoRequest

\* services/vector_store.py: initialize(), run by the lifespan of main.py
VectorStoreInitialize ==
    /\ UNCHANGED exceptApi
    /\ ~vector_store.initialized
    /\ \E ok \in BOOLEAN :
         vector_store' = [vector_store EXCEPT !.initialized = ok]
    /\ UNCHANGED api

\* one request below /api/v1/patterns; pattern_id is the id in the body of
\* POST /add, the path segment is the id of the two {pattern_id} routes
PatternsRequest(method, segment, body_id, fails) ==
    LET handler == Routed(PatternRoutes, method, segment)
        vs == vector_store
        done == CASE handler = "list_patterns" -> list_patterns(vs, fails)
                  [] handler = "search_patterns" -> search_patterns(vs, fails)
                  [] handler = "get_pattern" -> get_pattern(vs, segment, fails)
                  [] handler = "add_pattern" -> add_pattern(vs, body_id, fails)
                  [] handler = "delete_pattern" -> delete_pattern(vs, segment, fails)
                  [] handler = "recommend_patterns" -> recommend_patterns(vs, fails)
                  [] OTHER -> get_pattern_statistics(vs, fails)
    IN  /\ UNCHANGED exceptApi
        /\ handler # ""
        /\ vector_store' = [vector_store EXCEPT !.ids = done.ids]
        /\ api' = [router |-> "patterns", method |-> method, path |-> segment,
                   handler |-> handler, request |-> NoneVal,
                   initialized |-> vs.initialized, failed |-> fails,
                   status |-> done.answer.status, keys |-> done.answer.keys,
                   valid |-> FALSE]

\* ---- models/dify_models.py: DifyDSL ----
\* a document is kept as the state of its three deciding keys; the keys with
\* defaults (kind, version, dependencies) are left at their defaults
Parts == {"absent", "valid", "invalid"}
DifyDocs == [app : Parts, workflow : Parts, model_config : Parts]
\* app is required; workflow and model_config are Optional with default None,
\* and the class has no validator relating the two
DifyDSLAccepts(doc) ==
    /\ doc.app = "valid"
    /\ doc.workflow \in {"absent", "valid"}
    /\ doc.model_config \in {"absent", "valid"}

\* ---- the internal format submitted for conversion ----
Graphs == {"absent", "well-formed", "malformed"}
InternalDocs == [metadata : BOOLEAN, workflow : Graphs]

\* ---- utils/dify_converter_v2.py ----
DifyConverterV2Methods ==
    {"convert", "_generate_node_id_mappings", "_convert_nodes", "_convert_start_node",
     "_convert_end_node", "_convert_llm_node", "_convert_if_else_node",
     "_convert_code_node", "_convert_answer_node", "_create_generic_node",
     "_convert_edges", "_update_variable_references", "_map_variable_type",
     "_detect_dependencies", "_generate_plugin_hash"}
\* convert(): every key is read with a default, a node without "id" raises;
\* the result is build_workflow_dsl's document: app and workflow, no model_config
V2Convert(custom_dsl) ==
    IF custom_dsl.workflow = "malformed" THEN "raise"
    ELSE [app |-> "valid", workflow |-> "valid", model_config |-> "absent"]

\* ---- api/v1/endpoints/dify.py ----
\* the answer is always 200; valid tells whether DifyDSL(**dsl) was accepted
Validation(valid, keys) == [status |-> 200, keys |-> keys, valid |-> valid]
validate_dify_dsl(dsl) ==
    IF DifyDSLAccepts(dsl)
    THEN Validation(TRUE, {"valid", "errors", "warnings", "stats"})
    ELSE Validation(FALSE, {"valid", "errors", "warnings"})
\* converter.convert_to_dify(...) is an attribute lookup on a DifyConverterV2;
\* the AttributeError of a missing method is caught by "except Exception"
convert_to_dify(custom_dsl) ==
    IF "convert_to_dify" \notin DifyConverterV2Methods THEN HTTPException(500)
    ELSE LET dify_dsl == V2Convert(custom_dsl)
         IN  IF dify_dsl = "raise" THEN HTTPException(500)
             ELSE IF ~DifyDSLAccepts(dify_dsl) THEN HTTPException(400)
             ELSE Answer(200, {"dsl", "metadata", "warnings"})

\* ---- api/v1/endpoints/generation.py ----
\* the names bound at module level: imports, logger, router, the handlers
GenerationModuleNames ==
    {"APIRouter", "HTTPException", "Dict", "Any", "logging", "time", "datetime",
     "WorkflowRequest", "WorkflowResponse", "WorkflowMetadata", "llm_service",
     "dsl_service", "vector_store", "recommendation_service", "workflow_graph",
     "logger", "router", "generate_simple_workflow", "generate_full_workflow",
     "generate_multi_agent_workflow", "get_generation_status", "get_token_usage",
     "reset_token_usage", "convert_workflow_to_dify"}
\* the NameError of an unbound global is caught by "except Exception"
convert_workflow_to_dify(workflow) ==
    IF ~workflow.metadata \/ workflow.workflow = "absent" THEN HTTPException(400)
    ELSE IF "convert_to_dify_format" \notin GenerationModuleNames
         THEN HTTPException(500)
    ELSE IF workflow.workflow = "malformed" THEN HTTPException(500)
    ELSE Answer(200, {"status", "data", "format"})

Answered(router, path, handler, request, answer) ==
    [router |-> router, method |-> "POST", path |-> path, handler |-> handler,
     request |-> request, initialized |-> vector_store.initialized,
     failed |-> FALSE, status |-> answer.status, keys |-> answer.keys,
     valid |-> answer.valid]

PostDifyValidate(dsl) ==
    /\ UNCHANGED exceptApi
    /\ api' = Answered("dify", "validate", "validate_dify_dsl", dsl,
                       validate_dify_dsl(dsl))
    /\ UNCHANGED vector_store

PostDifyConvert(custom_dsl) ==
    /\ UNCHANGED exceptApi
    /\ api' = Answered("dify", "convert", "convert_to_dify", custom_dsl,
                       convert_to_dify(custom_dsl))
    /\ UNCHANGED vector_store

PostGenerateConvertDify(workflow) ==
    /\ UNCHANGED exceptApi
    /\ api' = Answered("generate", "convert/dify", "convert_workflow_to_dify",
                       workflow, convert_workflow_to_dify(workflow))
    /\ UNCHANGED vector_store

NextApi ==
    \/ VectorStoreInitialize
    \/ \E method \in Methods, segment \in Segments, body_id \in PatternIds,
          fails \in BOOLEAN : PatternsRequest(method, segment, body_id, fails)
    \/ \E dsl \in DifyDocs : PostDifyValidate(dsl)
    \/ \E custom_dsl \in InternalDocs : PostDifyConvert(custom_dsl)
    \/ \E workflow \in InternalDocs : PostGenerateConvertDify(workflow)

(***************************************************************************)
(*                           U T I L I T I E S                             *)
(* A string is the sequence of its characters.  The functions are pure and  *)
(* a behaviour is one call of one of them on inputs from the sets below.   *)
(***************************************************************************)

\* ---- bounds ----
MaxCommandLen == 2
MaxStringLen == 2
MaxNodes == 3

\* ---- inputs ----
SeqsUpTo(S, n) == UNION {[1..k -> S] : k \in 0..n}
CommandWords == {"dify-mcp", "--stdio"}
ServerBehaviours ==
    {"spawn_fails", "initialize_fails", "call_raises", "is_error", "text", "no_text"}
Chars == {"n", ".", "#", "}"}
Strings == SeqsUpTo(Chars, MaxStringLen) \ {<<>>}
OldIds == {"start_1", "llm_1", "end_1"}
ClockSteps == {0, 1}

\* ---- mcp_client.py ----
Returned(text) == [raised |-> "", text |-> text]
Raised(exc) == [raised |-> exc, text |-> ""]
\* dify_server_command[0] is read before the try block is entered
run_dify_workflow(dify_server_command, server) ==
    IF Len(dify_server_command) = 0 THEN Raised("IndexError")
    ELSE IF server \in {"spawn_fails", "initialize_fails", "call_raises"}
         THEN Returned("An error occurred while communicating with the Dify MCP server")
    ELSE IF server = "is_error" THEN Returned("Error executing workflow")
    ELSE IF server = "text" THEN Returned("<text of the content blocks>")
    ELSE Returned("Workflow executed, but no text output was returned.")

\* ---- utils/dify_builder.py: variable references ----
StartsWith(s, prefix) ==
    Len(s) >= Len(prefix) /\ SubSeq(s, 1, Len(prefix)) = prefix
EndsWith(s, suffix) ==
    Len(s) >= Len(suffix) /\ SubSeq(s, Len(s) - Len(suffix) + 1, Len(s)) = suffix
make_variable_reference(node_id, field) ==
    <<"{", "{", "#">> \o node_id \o <<".">> \o field \o <<"#", "}", "}">>
ParsedReference(node_id, field) ==
    [kind |-> "tuple", node_id |-> node_id, field |-> field]
\* rsplit(".", 1) would cut at the last "."
parse_variable_reference_rsplit(ref) ==
    IF ~(StartsWith(ref, <<"{", "{", "#">>) /\ EndsWith(ref, <<"#", "}", "}">>))
    THEN NoneVal
    ELSE LET content == SubSeq(ref, 4, Len(ref) - 3)
             dots == {i \in 1..Len(content) : content[i] = "."}
         IN  IF dots = {} THEN NoneVal
             ELSE LET at == CHOOSE i \in dots : \A j \in dots : j <= i
                  IN  ParsedReference(SubSeq(content, 1, at - 1),
                                      SubSeq(content, at + 1, Len(content)))
\* ref[3:-3] is empty when the two markers overlap; split(".", 1) cuts at the
\* first "."
parse_variable_reference(ref) ==
    IF ~(StartsWith(ref, <<"{", "{", "#">>) /\ EndsWith(ref, <<"#", "}", "}">>))
    THEN NoneVal
    ELSE LET content == SubSeq(ref, 4, Len(ref) - 3)
             dots == {i \in 1..Len(content) : content[i] = "."}
         IN  IF dots = {} THEN NoneVal
             ELSE LET at == CHOOSE i \in dots : \A j \in dots : i <= j
                  IN  ParsedReference(SubSeq(content, 1, at - 1),
                                      SubSeq(content, at + 1, Len(content)))

\* ---- utils/dify_builder.py and utils/dify_converter_v2.py: node ids ----
\* str(int(datetime.now().timestamp() * 1000)): the decimal digits of the
\* clock's milliseconds, kept as that number (the digits determine it)
generate_timestamp_id(clock_ms) == clock_ms
\* the clock when the i-th call is made: it moved steps[k] ms before call k
RECURSIVE ClockAt(_, _, _)
ClockAt(start_ms, steps, i) ==
    IF i = 0 THEN start_ms ELSE ClockAt(start_ms, steps, i - 1) + steps[i]
\* node_id_map after the loop: a later node with the same old id overwrites
GenerateNodeIdMappings(nodes, start_ms, steps) ==
    [old_id \in {nodes[i] : i \in 1..Len(nodes)} |->
        LET last == CHOOSE i \in 1..Len(nodes) :
                        /\ nodes[i] = old_id
                        /\ \A j \in 1..Len(nodes) : nodes[j] = old_id => j <= i
        IN  generate_timestamp_id(ClockAt(start_ms, steps, last))]
\* _convert_nodes: the id each converted node carries
ConvertedNodeIds(nodes, node_id_map) ==
    [i \in 1..Len(nodes) |-> node_id_map[nodes[i]]]

NoUtilCall == [op |-> ""]
InitUtil == util = NoUtilCall
IdleUtil == util = NoUtilCall

RunDifyWorkflow(dify_server_command, server) ==
    /\ UNCHANGED exceptUtil
    /\ util = NoUtilCall
    /\ util' = [op |-> "run_dify_workflow", command |-> dify_server_command,
                server |-> server,
                result |-> run_dify_workflow(dify_server_command, server)]

VariableReferenceRoundTrip(node_id, field) ==
    LET ref == make_variable_reference(node_id, field)
    IN  /\ UNCHANGED exceptUtil
        /\ util = NoUtilCall
        /\ util' = [op |-> "parse_variable_reference", node_id |-> node_id,
                    field |-> field, ref |-> ref,
                    result |-> parse_variable_reference(ref)]

ConvertNodeIds(nodes, steps) ==
    LET node_id_map == GenerateNodeIdMappings(nodes, 0, steps)
    IN  /\ UNCHANGED exceptUtil
        /\ util = NoUtilCall
        /\ Len(steps) = Len(nodes)
        /\ util' = [op |-> "_generate_node_id_mappings", nodes |-> nodes,
                    node_id_map |-> node_id_map,
                    new_ids |-> ConvertedNodeIds(nodes, node_id_map)]

NextUtil ==
    \/ \E dify_server_command \in SeqsUpTo(CommandWords, MaxCommandLen),
          server \in ServerBehaviours : RunDifyWorkflow(dify_server_command, server)
    \/ \E node_id \in Strings, field \in Strings :
          VariableReferenceRoundTrip(node_id, field)
    \/ \E nodes \in SeqsUpTo(OldIds, MaxNodes), steps \in SeqsUpTo(ClockSteps, MaxNodes) :
          ConvertNodeIds(nodes, steps)

(***************************************************************************)
(*                         T O K E N   U S A G E                           *)
(* A model name is the sequence of its characters.  A cost is kept exactly, *)
(* in units of 10^-8 dollars: a price of d dollars per million tokens is   *)
(* 100*d units per token.                                                  *)
(***************************************************************************)

\* ---- bounds ----
MaxTasks == 2
MaxCompletions == 3

\* ---- inputs ----
Gpt4o == <<"g", "p", "t", "-", "4", "o">>
Gpt4oMini == <<"g", "p", "t", "-", "4", "o", "-", "m", "i", "n", "i">>
Gpt4 == <<"g", "p", "t", "-", "4">>
Gpt35Turbo == <<"g", "p", "t", "-", "3", ".", "5", "-", "t", "u", "r", "b", "o">>
UnlistedModel == <<"o", "1">>
Models == {Gpt4o, Gpt4oMini, Gpt4, UnlistedModel}
TaskIds == 1..MaxTasks
\* response.usage: None, or the token counts of the response
Usage(prompt_tokens, completion_tokens) ==
    [kind |-> "usage", prompt_tokens |-> prompt_tokens,
     completion_tokens |-> completion_tokens,
     total_tokens |-> prompt_tokens + completion_tokens]
Usages == {NoneVal, Usage(1, 1), Usage(2, 1)}

\* ---- services/llm_service.py: TokenUsageStats ----
\* the pricing dict in its insertion order, prices as units per token
pricing ==
    << [key |-> Gpt4o, input |-> 250, output |-> 1000],
       [key |-> Gpt4oMini, input |-> 15, output |-> 60],
       [key |-> Gpt4, input |-> 3000, output |-> 6000],
       [key |-> Gpt35Turbo, input |-> 50, output |-> 150] >>
\* "key in model": key is a substring of model
Contains(key, model) ==
    \E i \in 1..(Len(model) - Len(key) + 1) : SubSeq(model, i, i + Len(key) - 1) = key
PricingOf(key) == pricing[CHOOSE i \in 1..Len(pricing) : pricing[i].key = key]
\* the first key, in insertion order, that is a substring of the model
ModelPricing(model) ==
    LET hits == {i \in 1..Len(pricing) : Contains(pricing[i].key, model)}
    IN  IF hits = {} THEN PricingOf(Gpt4oMini)
        ELSE pricing[CHOOSE i \in hits : \A j \in hits : i <= j]
estimate_cost(model, prompt_tokens, completion_tokens) ==
    prompt_tokens * ModelPricing(model).input
        + completion_tokens * ModelPricing(model).output

NewStats ==
    [total_requests |-> 0, total_prompt_tokens |-> 0, total_completion_tokens |-> 0,
     total_tokens |-> 0, total_cost |-> 0, requests_by_model |-> <<>>]
\* requests_by_model.get(model, 0)
RequestsOf(stats, model) ==
    IF model \in DOMAIN stats.requests_by_model THEN stats.requests_by_model[model] ELSE 0
record_usage_first_only(stats, model, usage) ==
    [total_requests |-> stats.total_requests + 1,
     total_prompt_tokens |-> stats.total_prompt_tokens + usage.prompt_tokens,
     total_completion_tokens |-> stats.total_completion_tokens + usage.completion_tokens,
     total_tokens |-> stats.total_tokens + usage.total_tokens,
     requests_by_model |->
        [m \in DOMAIN stats.requests_by_model \cup {model} |-> 1],
     total_cost |-> stats.total_cost
        + estimate_cost(model, usage.prompt_tokens, usage.completion_tokens)]
\* the method holds no await: it runs as one step of the event loop
record_usage(stats, model, usage) ==
    [total_requests |-> stats.total_requests + 1,
     total_prompt_tokens |-> stats.total_prompt_tokens + usage.prompt_tokens,
     total_completion_tokens |-> stats.total_completion_tokens + usage.completion_tokens,
     total_tokens |-> stats.total_tokens + usage.total_tokens,
     requests_by_model |->
        [m \in DOMAIN stats.requests_by_model \cup {model} |->
            IF m = model THEN RequestsOf(stats, m) + 1 ELSE RequestsOf(stats, m)],
     total_cost |-> stats.total_cost
        + estimate_cost(model, usage.prompt_tokens, usage.completion_tokens)]

\* ---- observation: what the completions reported, the last recorded cost ----
NoUsageSeen ==
    [started |-> 0, recorded |-> 0, prompt_tokens |-> 0, completion_tokens |-> 0,
     total_tokens |-> 0, was_reset |-> FALSE,
     last |-> [model |-> <<>>, usage |-> NoneVal, cost |-> 0]]
IdleTask == [pc |-> "idle", model |-> <<>>]

InitUsage ==
    /\ usage_stats = NewStats
    /\ tasks = [t \in TaskIds |-> IdleTask]
    /\ usage_obs = NoUsageSeen
IdleUsage ==
    /\ usage_stats = NewStats
    /\ tasks = <<>>
    /\ usage_obs = NoUsageSeen

\* generate_completion up to "await self.client.chat.completions.create"
CallCompletion(t, selected_model) ==
    /\ UNCHANGED exceptUsage
    /\ tasks[t].pc = "idle"
    /\ usage_obs.started < MaxCompletions
    /\ tasks' = [tasks EXCEPT ![t] = [pc |-> "awaiting", model |-> selected_model]]
    /\ usage_obs' = [usage_obs EXCEPT !.started = @ + 1]
    /\ UNCHANGED usage_stats

\* generate_completion from the return of create() to its own return
CompletionReturns(t, usage) ==
    /\ UNCHANGED exceptUsage
    /\ tasks[t].pc = "awaiting"
    /\ tasks' = [tasks EXCEPT ![t] = IdleTask]
    /\ IF usage = NoneVal
       THEN UNCHANGED <<usage_stats, usage_obs>>
       ELSE /\ usage_stats' = record_usage(usage_stats, tasks[t].model, usage)
            /\ usage_obs' =
                 [usage_obs EXCEPT
                    !.recorded = @ + 1,
                    !.prompt_tokens = @ + usage.prompt_tokens,
                    !.completion_tokens = @ + usage.completion_tokens,
                    !.total_tokens = @ + usage.total_tokens,
                    !.last = [model |-> tasks[t].model, usage |-> usage,
                              cost |-> usage_stats'.total_cost - usage_stats.total_cost]]

\* create() raised: generate_completion raises without recording anything
CompletionRaises(t) ==
    /\ UNCHANGED exceptUsage
    /\ tasks[t].pc = "awaiting"
    /\ tasks' = [tasks EXCEPT ![t] = IdleTask]
    /\ UNCHANGED <<usage_stats, usage_obs>>

\* TokenUsageStats.reset
ResetUsage ==
    /\ UNCHANGED exceptUsage
    /\ usage_stats' = NewStats
    /\ usage_obs' = [usage_obs EXCEPT !.was_reset = TRUE]
    /\ UNCHANGED tasks

NextUsage ==
    \/ \E t \in TaskIds, selected_model \in Models : CallCompletion(t, selected_model)
    \/ \E t \in TaskIds, usage \in Usages : CompletionReturns(t, usage)
    \/ \E t \in TaskIds : CompletionRaises(t)
    \/ ResetUsage

(***************************************************************************)
(*                       D S L   G E N E R A T I O N                       *)
(* The handlers run on one event loop: a handler keeps the loop from one   *)
(* await to the next, and between two awaits nothing else runs.  A node id *)
(* is the sequence of the pieces it is formatted from.                     *)
(***************************************************************************)

\* ---- bounds ----
MaxGenRequests == 3

\* ---- inputs ----
GenRequestIds == 1..MaxGenRequests
GenKinds == {"simple", "full"}

\* ---- services/dsl_service.py ----
\* str(n) for a natural number n
Digits == <<"0", "1", "2", "3", "4", "5", "6", "7", "8", "9">>
RECURSIVE Str(_)
Str(n) == IF n < 10 THEN <<Digits[n + 1]>> ELSE Str(n \div 10) \o <<Digits[(n % 10) + 1]>>
\* generate_node_id: the counter after the call and f"{node_type}_{counter}"
generate_node_id(counter, node_type) ==
    [counter |-> counter + 1, id |-> <<node_type, "_">> \o Str(counter + 1)]
\* a reference {{#node_id.field#}} in a text field of a node
Reference(node_id, field) == [node_id |-> node_id, field |-> field]
NodeBase(id, type, references) == [id |-> id, type |-> type, references |-> references]
create_edge(source_id, target_id) == [source |-> source_id, target |-> target_id]
\* "self._node_counter = 0" at the start of generate_simple_workflow
KeepNodeCounter(counter) == counter
ResetNodeCounter(counter) == 0
\* the counter after the call and the workflow's graph
generate_simple_workflow(counter) ==
    LET start == generate_node_id(ResetNodeCounter(counter), "start")
        llm == generate_node_id(start.counter, "llm")
        end == generate_node_id(llm.counter, "end")
    IN  [counter |-> end.counter,
         nodes |-> << NodeBase(start.id, "start", {}),
                      NodeBase(llm.id, "llm", {Reference(<<"start">>, "user_input")}),
                      NodeBase(end.id, "end", {Reference(<<"llm">>, "text")}) >>,
         edges |-> << create_edge(start.id, llm.id), create_edge(llm.id, end.id) >>]
\* DSLService.validate_workflow: the number of errors of a generated workflow,
\* which holds version, metadata and graph with nodes and edges
DslValidateWorkflow(workflow) ==
    LET types == {workflow.nodes[i].type : i \in 1..Len(workflow.nodes)}
        node_ids == {workflow.nodes[i].id : i \in 1..Len(workflow.nodes)}
        ends == {workflow.edges[i].source : i \in 1..Len(workflow.edges)}
        heads == {workflow.edges[i].target : i \in 1..Len(workflow.edges)}
    IN  (IF "start" \in types THEN 0 ELSE 1) + (IF "end" \in types THEN 0 ELSE 1)
        + Cardinality({i \in 1..Len(workflow.edges) :
                           workflow.edges[i].source \notin node_ids})
        + Cardinality({i \in 1..Len(workflow.edges) :
                           workflow.edges[i].target \notin node_ids})

\* ---- api/v1/endpoints/generation.py: POST /simple and POST /full ----
NotSent == [pc |-> "none", kind |-> "", status |-> 0, workflow |-> NoneVal]
InitDsl ==
    /\ node_counter = 0
    /\ gen = [r \in GenRequestIds |-> NotSent]
IdleDsl ==
    /\ node_counter = 0
    /\ gen = <<>>

\* from "workflow = dsl_service.generate_simple_workflow(...)" to the return
\* of either handler: no await in between
Generated(r) ==
    LET workflow == generate_simple_workflow(node_counter)
        valid == DslValidateWorkflow(workflow) = 0
    IN  /\ node_counter' = workflow.counter
        /\ gen' = [gen EXCEPT ![r] =
                     [pc |-> "done", kind |-> gen[r].kind,
                      status |-> IF valid THEN 200 ELSE 500,
                      workflow |-> IF valid
                                   THEN [nodes |-> workflow.nodes, edges |-> workflow.edges]
                                   ELSE NoneVal]]

\* the request is received and its handler is scheduled
AcceptGeneration(r, kind) ==
    /\ UNCHANGED exceptDsl
    /\ gen[r].pc = "none"
    /\ gen' = [gen EXCEPT ![r] = [@ EXCEPT !.pc = "scheduled", !.kind = kind]]
    /\ UNCHANGED node_counter

\* generate_simple_workflow (the handler): it holds no await
RunSimple(r) ==
    /\ UNCHANGED exceptDsl
    /\ gen[r].pc = "scheduled" /\ gen[r].kind = "simple"
    /\ Generated(r)

\* generate_full_workflow up to its first await of the LLM service
RunFullToAwait(r) ==
    /\ UNCHANGED exceptDsl
    /\ gen[r].pc = "scheduled" /\ gen[r].kind = "full"
    /\ gen' = [gen EXCEPT ![r] = [@ EXCEPT !.pc = "awaiting"]]
    /\ UNCHANGED node_counter

\* generate_full_workflow from the LLM's answer to its return
RunFullFromAwait(r, llm) ==
    /\ UNCHANGED exceptDsl
    /\ gen[r].pc = "awaiting"
    /\ IF llm = "ok"
       THEN Generated(r)
       ELSE /\ gen' = [gen EXCEPT ![r] = [@ EXCEPT !.pc = "done", !.status = 500]]
            /\ UNCHANGED node_counter

NextDsl ==
    \/ \E r \in GenRequestIds, kind \in GenKinds : AcceptGeneration(r, kind)
    \/ \E r \in GenRequestIds : RunSimple(r)
    \/ \E r \in GenRequestIds : RunFullToAwait(r)
    \/ \E r \in GenRequestIds, llm \in {"ok", "error"} : RunFullFromAwait(r, llm)

(***************************************************************************)
(*                       S P E C I F I C A T I O N S                       *)
(***************************************************************************)

Init == InitPipeline /\ IdleLimiter /\ IdleRetry /\ IdleApi /\ IdleUtil
         /\ IdleUsage /\ IdleDsl
Next == NextPipeline
Spec == Init /\ [][Next]_vars

InitL == IdlePipeline /\ InitLimiter /\ IdleRetry /\ IdleApi /\ IdleUtil
         /\ IdleUsage /\ IdleDsl
NextL == NextLimiter
SpecLimiter == InitL /\ [][NextL]_vars

InitH == IdlePipeline /\ InitHttp /\ IdleRetry /\ IdleApi /\ IdleUtil
         /\ IdleUsage /\ IdleDsl
NextH == NextHttp
SpecHttp == InitH /\ [][NextH]_vars

InitR == IdlePipeline /\ IdleLimiter /\ InitRetry /\ IdleApi /\ IdleUtil
         /\ IdleUsage /\ IdleDsl
NextR == NextRetry
SpecRetry == InitR /\ [][NextR]_vars

InitA == IdlePipeline /\ IdleLimiter /\ IdleRetry /\ InitApi /\ IdleUtil
         /\ IdleUsage /\ IdleDsl
NextA == NextApi
SpecApi == InitA /\ [][NextA]_vars

InitU == IdlePipeline /\ IdleLimiter /\ IdleRetry /\ IdleApi /\ InitUtil
         /\ IdleUsage /\ IdleDsl
NextU == NextUtil
SpecUtil == InitU /\ [][NextU]_vars

InitG == IdlePipeline /\ IdleLimiter /\ IdleRetry /\ IdleApi /\ IdleUtil
         /\ InitUsage /\ IdleDsl
NextG == NextUsage
SpecUsage == InitG /\ [][NextG]_vars

InitD == IdlePipeline /\ IdleLimiter /\ IdleRetry /\ IdleApi /\ IdleUtil
         /\ IdleUsage /\ InitDsl
NextD == NextDsl
SpecDsl == InitD /\ [][NextD]_vars

(***************************************************************************)
(*                              C L A I M S                                *)
(***************************************************************************)

LastRan(stage) == trace # <<>> /\ trace[Len(trace)] = stage

\* C1: while every quality run stores a report with should_retry = true and
\* overall_score < 70, the retry edge quality -> configuration is taken at
\* most max_iterations times.
C1_RetryBound == all_low => retries <= max_iterations

\* C2: no stage aborts a pipeline execution before finalize, whatever the
\* agents' LLM calls return or raise.
C2_NoAbort == pc # "aborted"

\* C3: should_iterate returns "iterate" exactly when a quality report exists,
\* should_retry holds, overall_score < 70 and iterations < max_iterations,
\* and "finalize" otherwise; it returns nothing else.
C3_ShouldIterate ==
    should_iterate(quality_report, iterations, max_iterations) =
        IF /\ quality_report # NoneVal
           /\ quality_report.should_retry
           /\ quality_report.overall_score < 70
           /\ iterations < max_iterations
        THEN "iterate"
        ELSE "finalize"

\* C4: a finished execution in which every LLM call succeeded with a
\* well-formed result has an empty error_history.
C4_NoErrorsOnSuccess == (pc = "END" /\ ~env_failed) => error_history = <<>>

\* C5: a client never has more than `requests` allowed calls inside one
\* window of `period` seconds: a call is allowed exactly when fewer than
\* `requests` allowed calls of that client are younger than `period`, and a
\* rejected call reports 0 remaining.
C5_WindowBound ==
    /\ \A c \in ClientIds : Len(allowed_ages[c]) <= rl_requests
    /\ last_call.client # "" =>
        /\ last_call.allowed <=> last_call.before < rl_requests
        /\ ~last_call.allowed => last_call.remaining = 0

\* C5 witness: with 2 requests per window, a third call inside the window of
\* two allowed calls was rejected.
C5_Witness ==
    /\ rl_requests = 2
    /\ last_call.client # ""
    /\ ~last_call.allowed
    /\ last_call.before = 2
    /\ Len(allowed_ages[last_call.client]) = 2

\* C6: every response sent carries X-Request-ID and X-Response-Time, the
\* 429 of the rate limiter included.
C6_LoggingHeaders ==
    response.status # 0 => {"X-Request-ID", "X-Response-Time"} \subseteq response.headers

\* C7: without a fallback model, a wrapped function whose every call raises a
\* retryable error is called exactly max_retries + 1 times and the wrapper
\* then raises the retryable exception (async and sync wrapper).
C7_AttemptsThenRaise ==
    (rt.pc = "done" /\ rt.fallback_model = "None" /\ rt.only_retryable) =>
        /\ rt.calls = rt.max_retries + 1
        /\ rt.result = "raised"
        /\ rt.exception = "retryable"

\* C7 witness: max_retries = 3, four failing calls, then the exception.
C7_Witness ==
    /\ rt.pc = "done"
    /\ rt.fallback_model = "None"
    /\ rt.only_retryable
    /\ rt.max_retries = 3
    /\ rt.calls = 4
    /\ rt.result = "raised"

\* C8: an asynchronous wrapped call that exhausted its retries under a
\* decorator with a fallback model has made exactly one further attempt with
\* model = fallback_model, whoever the caller was.
C8_FallbackAttempt ==
    (rt.pc = "done" /\ rt.is_async /\ rt.exhausted /\ rt.fallback_model # "None") =>
        /\ rt.fallback_calls = 1
        /\ rt.model = rt.fallback_model

\* C9: after a quality run whose assessment failed, the stored report has
\* should_retry = false and the pipeline goes to finalize.
C9_FailedQANoRetry ==
    (LastRan("quality") /\ last_outcome = "fallback") =>
        /\ quality_report.should_retry = FALSE
        /\ pc = "finalize"

\* C9 witness: the assessment failed while iterations < max_iterations.
C9_Witness ==
    /\ LastRan("quality")
    /\ last_outcome = "fallback"
    /\ iterations < max_iterations
    /\ pc = "finalize"

\* C10: requirements runs first and architecture second, each once; every
\* quality run directly follows a configuration run; every configuration run
\* directly follows architecture or quality; finalize runs at most once,
\* last, and directly after a quality run.
C10_StageOrder ==
    /\ \A i \in 1..Len(trace) :
        /\ trace[i] = "requirements" <=> i = 1
        /\ trace[i] = "architecture" <=> i = 2
        /\ trace[i] = "configuration" => i > 1 /\ trace[i - 1] \in {"architecture", "quality"}
        /\ trace[i] = "quality" => i > 1 /\ trace[i - 1] = "configuration"
        /\ trace[i] = "finalize" => i = Len(trace) /\ i > 1 /\ trace[i - 1] = "quality"
    /\ pc \in {"END", "aborted"} => Len(trace) >= 2

\* C10 witness: a finished execution that took the retry edge.
C10_Witness ==
    /\ pc = "END"
    /\ retries >= 1
    /\ LastRan("finalize")

\* C11: when the validation reported E >= 1 errors and the LLM reported
\* overall_score S and correctness_score C, the stored report has
\* overall_score = max(0, S - min(20, 5 * E)) and correctness_score =
\* max(0, C - min(20, 5 * E)); neither is negative.
C11_PenaltyArithmetic ==
    (LastRan("quality") /\ qa_obs.raw # NoneVal /\ qa_obs.errors_count >= 1) =>
        LET E == qa_obs.errors_count
            cap == IF 5 * E < 20 THEN 5 * E ELSE 20
            S == qa_obs.raw.overall_score - cap
            C == qa_obs.raw.correctness_score - cap
        IN  /\ quality_report.overall_score = (IF S < 0 THEN 0 ELSE S)
            /\ quality_report.correctness_score = (IF C < 0 THEN 0 ELSE C)
            /\ quality_report.overall_score >= 0
            /\ quality_report.correctness_score >= 0

\* C11 witness: a penalised report where the floor at 0 applies to one score
\* and not to the other.
C11_Witness ==
    /\ LastRan("quality")
    /\ qa_obs.raw # NoneVal
    /\ qa_obs.errors_count >= 1
    /\ qa_obs.raw.overall_score = 10
    /\ quality_report.overall_score = 0
    /\ qa_obs.raw.correctness_score = 89
    /\ quality_report.correctness_score = 69

\* C12: while the vector store is uninitialized, every request to a pattern
\* endpoint (list, search, get by id, add, delete, recommend, statistics) is
\* answered with HTTP 503.
C12_Uninitialized503 ==
    (api.router = "patterns" /\ ~api.initialized) => api.status = 503

\* C13: with the vector store initialized and answering, GET /patterns/recommend
\* is handled by recommend_patterns and answered 200 with the keys description,
\* n_results and recommendations, and GET /patterns/statistics is handled by
\* get_pattern_statistics; neither is handled as a lookup by id.
C13_RecommendDispatch ==
    (api.router = "patterns" /\ api.initialized /\ ~api.failed /\ api.method = "GET") =>
        /\ api.path = "recommend" =>
               /\ api.handler = "recommend_patterns"
               /\ api.status = 200
               /\ api.keys = {"description", "n_results", "recommendations"}
        /\ api.path = "statistics" => api.handler = "get_pattern_statistics"

\* C14: POST /dify/convert with a well-formed internal-format document (metadata
\* and a workflow graph with valid nodes and edges) is answered 200 with the
\* converted dsl.
C14_ConvertWellFormed ==
    (api.handler = "convert_to_dify" /\ api.request.metadata
        /\ api.request.workflow = "well-formed") =>
        (api.status = 200 /\ "dsl" \in api.keys)

\* C15: POST /generate/convert/dify is answered 400 when the body lacks "metadata"
\* or "workflow", and 200 with the converted document and the format tag when the
\* body has both keys and a convertible graph.
C15_LegacyConvert ==
    api.handler = "convert_workflow_to_dify" =>
        IF ~api.request.metadata \/ api.request.workflow = "absent"
        THEN api.status = 400
        ELSE api.request.workflow = "well-formed" =>
                (api.status = 200 /\ {"data", "format"} \subseteq api.keys)

\* C16: run_dify_workflow never raises: for every command list, the empty one
\* included, and every behaviour of the server it returns a string.
C16_NeverRaises ==
    util.op = "run_dify_workflow" => util.result.raised = ""

\* C17 (as stated): for every non-empty node id n and non-empty field name f,
\* parse_variable_reference(make_variable_reference(n, f)) is (n, f).
C17_RoundTrip ==
    util.op = "parse_variable_reference" =>
        util.result = ParsedReference(util.node_id, util.field)

\* C17 (amended): for every non-empty node id n that contains no "." and every
\* non-empty field name f, parse_variable_reference(make_variable_reference(n, f))
\* is (n, f).
C17_RoundTripNoDot ==
    (util.op = "parse_variable_reference"
        /\ \A i \in 1..Len(util.node_id) : util.node_id[i] # ".") =>
        util.result = ParsedReference(util.node_id, util.field)
C17_Witness ==
    /\ util.op = "parse_variable_reference"
    /\ util.node_id = <<"n", "#">>
    /\ util.field = <<"}", ".">>
    /\ util.result = ParsedReference(<<"n", "#">>, <<"}", ".">>)

\* C18: in one conversion of a graph whose node ids are pairwise distinct, the
\* map from old id to new id is injective and the converted nodes carry pairwise
\* distinct ids.
C18_FreshIds ==
    (util.op = "_generate_node_id_mappings"
        /\ \A i, j \in 1..Len(util.nodes) : util.nodes[i] = util.nodes[j] => i = j) =>
        /\ \A a, b \in DOMAIN util.node_id_map :
               util.node_id_map[a] = util.node_id_map[b] => a = b
        /\ \A i, j \in 1..Len(util.new_ids) : util.new_ids[i] = util.new_ids[j] => i = j

\* C19: POST /dify/validate answers valid: true only for a document that holds
\* exactly one of workflow and model_config.
C19_ExactlyOneBody ==
    (api.handler = "validate_dify_dsl" /\ api.valid) =>
        ((api.request.workflow # "absent") # (api.request.model_config # "absent"))

\* C20: error_history only grows: a stage run that fails appends exactly one
\* entry, the one of that stage, to the history it received, and every other
\* stage run leaves the history as it was; this holds on the retry edge too.
StagePrefix(stage) ==
    CASE stage = "requirements" -> "Requirements"
      [] stage = "architecture" -> "Architecture"
      [] stage = "configuration" -> "Configuration"
      [] stage = "quality" -> "Quality"
      [] OTHER -> "Finalize"
C20_ErrorHistoryGrows ==
    [][IF last_outcome' = "fallback"
       THEN error_history' = Append(error_history, StagePrefix(trace'[Len(trace')]))
       ELSE error_history' = error_history]_vars
C20_Witness ==
    /\ retries >= 1
    /\ Len(error_history) >= 3
    /\ \E i, j \in 1..Len(error_history) :
          i < j /\ error_history[i] = "Configuration" /\ error_history[j] = "Configuration"

\* C21: the cost recorded for a completion uses the tier of the model that
\* served it: gpt-4o-mini at $0.15 / $0.60 per million prompt / completion
\* tokens, gpt-4o at $2.50 / $10.00, a model matching no tier at the gpt-4o-mini
\* prices.
C21_PricingTier ==
    usage_obs.last.usage # NoneVal =>
        LET u == usage_obs.last.usage
            m == usage_obs.last.model
            mini == u.prompt_tokens * 15 + u.completion_tokens * 60
        IN  /\ m = Gpt4oMini => usage_obs.last.cost = mini
            /\ m = Gpt4o =>
                 usage_obs.last.cost = u.prompt_tokens * 250 + u.completion_tokens * 1000
            /\ m = UnlistedModel => usage_obs.last.cost = mini

\* C22: whenever the pipeline has produced final_dsl, every edge of its graph
\* has a source and a target that are ids of nodes of that graph.
C22_EdgesReferToNodes ==
    final_dsl # NoneVal =>
        \A i \in 1..Len(final_dsl.edges) :
            /\ final_dsl.edges[i].source \in NodeIds(final_dsl.nodes)
            /\ final_dsl.edges[i].target \in NodeIds(final_dsl.nodes)

\* C23: every variable reference in a workflow built by generate_simple_workflow
\* names the id of a node of that workflow.
C23_ReferencesResolve ==
    \A r \in DOMAIN gen :
        gen[r].workflow # NoneVal =>
            LET nodes == gen[r].workflow.nodes
            IN  \A i \in 1..Len(nodes) : \A ref \in nodes[i].references :
                    \E j \in 1..Len(nodes) : nodes[j].id = ref.node_id

\* C25: at every point of a pipeline run, state.iterations equals the number of
\* times the retry edge quality -> configuration has been taken so far.
C25_IterationsCountRetries == iterations = retries

\* C26: under any interleaving of concurrent completion calls, after k
\* completions that returned usage data and no reset, total_requests = k = the
\* sum of requests_by_model and each token total is the sum of the reported
\* counts.
RECURSIVE SumOf(_)
SumOf(f) ==
    IF DOMAIN f = {} THEN 0
    ELSE LET m == CHOOSE m \in DOMAIN f : TRUE
         IN  f[m] + SumOf([n \in DOMAIN f \ {m} |-> f[n]])
C26_NoLostUpdate ==
    ~usage_obs.was_reset =>
        /\ usage_stats.total_requests = usage_obs.recorded
        /\ SumOf(usage_stats.requests_by_model) = usage_obs.recorded
        /\ usage_stats.total_prompt_tokens = usage_obs.prompt_tokens
        /\ usage_stats.total_completion_tokens = usage_obs.completion_tokens
        /\ usage_stats.total_tokens = usage_obs.total_tokens
C26_Witness ==
    /\ ~usage_obs.was_reset
    /\ usage_obs.recorded = 2
    /\ usage_obs.started = 3
    /\ \E t \in DOMAIN tasks : tasks[t].pc = "awaiting"
    /\ \E m \in DOMAIN usage_stats.requests_by_model : usage_stats.requests_by_model[m] = 2

\* C28: when the configured nodes and edges form a structurally valid graph
\* (unique ids, data type and title present, valid kinds, a start and an end
\* node, every edge between existing nodes), the pre-check reports zero errors
\* and the stored scores are the ones the LLM reported.
StructurallyValid(nodes, edges) ==
    /\ nodes # <<>>
    /\ \A i, j \in 1..Len(nodes) : nodes[i].id = nodes[j].id => i = j
    /\ \A i \in 1..Len(nodes) : nodes[i].has_title /\ nodes[i].data_type \in VALID_NODE_TYPES
    /\ \E i \in 1..Len(nodes) : nodes[i].data_type = "start"
    /\ \E i \in 1..Len(nodes) : nodes[i].data_type = "end"
    /\ \A i \in 1..Len(edges) :
          edges[i].source \in NodeIds(nodes) /\ edges[i].target \in NodeIds(nodes)
C28_ValidGraphNoPenalty ==
    (LastRan("quality") /\ qa_obs.raw # NoneVal
        /\ StructurallyValid(configured_nodes, configured_edges)) =>
        /\ qa_obs.errors_count = 0
        /\ quality_report.overall_score = qa_obs.raw.overall_score
        /\ quality_report.correctness_score = qa_obs.raw.correctness_score

\* C29: however POST /generate/simple requests are interleaved with each other
\* and with other generation requests, every answer to one holds exactly the
\* node ids start_1, llm_2 and end_3 and edges between those ids only.
C29_SimpleIds ==
    \A r \in DOMAIN gen :
        (gen[r].pc = "done" /\ gen[r].kind = "simple") =>
            /\ gen[r].status = 200
            /\ [i \in 1..Len(gen[r].workflow.nodes) |-> gen[r].workflow.nodes[i].id]
                  = << <<"start", "_", "1">>, <<"llm", "_", "2">>, <<"end", "_", "3">> >>
            /\ \A i \in 1..Len(gen[r].workflow.edges) :
                  {gen[r].workflow.edges[i].source, gen[r].workflow.edges[i].target}
                      \subseteq {<<"start", "_", "1">>, <<"llm", "_", "2">>,
                                 <<"end", "_", "3">>}
C29_Witness ==
    /\ gen[1].pc = "done" /\ gen[1].kind = "simple"
    /\ gen[2].pc = "done" /\ gen[2].kind = "simple"
    /\ gen[3].pc = "awaiting"
    /\ node_counter = 3

\* C27: every delay slept between two attempts of a wrapped call is at most
\* max_delay seconds (delays are in hundredths of a second), for every attempt
\* number and with jitter enabled or disabled.
C27_DelayBound == rt.slept <= rt.max_delay * 100

\* C30: a rejected is_allowed call records no timestamp: every client's list,
\* restricted to the window, holds exactly the timestamps of its allowed calls,
\* whoever called and however often a call was rejected; so a client is allowed
\* again as soon as fewer than N of its allowed calls lie within the last P
\* seconds, whatever the number of rejected calls directly before.
C30_RejectedLeavesNoTrace ==
    /\ \A c \in ClientIds : Prune(clients[c].ts) = allowed_ages[c]
    /\ \A c \in ClientIds : Len(clients[c].ts) <= rl_requests
    /\ (last_call.client # "" /\ last_call.before < rl_requests) => last_call.allowed

\* C30 witness: with 2 requests per window, a client with one allowed call
\* still inside the window is allowed again directly after two rejected calls.
C30_Witness ==
    /\ rl_requests = 2
    /\ last_call.client # ""
    /\ last_call.allowed
    /\ last_call.rejected = 2
    /\ last_call.before = 1
    /\ Len(clients[last_call.client].ts) = 2

\* C24: over any sequence of non-exempt requests handled by the rate-limit
\* middleware (allowed, rejected with 429, or failing downstream), a
\* housekeeping pass runs at least once in every 100 consecutive requests:
\* fewer than 100 such requests were handled since the last pass.
C24_HousekeepingEvery100 ==
    cleanup_counter + (IF uncounted THEN 1 ELSE 0) < CleanupEvery

====
